---- MODULE Spec2Model ----
(***************************************************************************)
(* A model of the session / login resource (src/src/userlogin), of its    *)
(* session and user stores, and of the realtime connection registry       *)
(* (src/atlas_pubsub).                                                     *)
(*                                                                         *)
(* Strings are modelled by small values: a session key (a uuid) is a      *)
(* positive number and the empty string is EmptyToken; a user id and a    *)
(* secret (uuids) are positive numbers; Option<T> is a set with at most   *)
(* one element ({} is None, {x} is Some(x)).                              *)
(***************************************************************************)
EXTENDS Integers, Sequences, FiniteSets, TLC

\* ------------------------------------------------------------- bounds
NumUsers == 2          \* user ids that register may hand out
MaxSessions == 3       \* session keys the session store may create
MaxVersion == 2        \* versions 0..MaxVersion in direct save_user calls
MaxClock == 700        \* the clock stops here (seconds)
MaxConns == 2          \* WebSocket connections that may be opened
MaxMsgs == 1           \* messages that may be published
MaxOrderMsgs == 2      \* messages published to the one WebSocket of SpecOneConn
MaxRelayMsgs == 2      \* messages published through the relay
MaxInFlight == 1       \* messages the subscriber's stream holds unread
MaxFrames == 2         \* receive tasks of SpecReceive that are followed
MaxIapCalls == 3       \* validate_purchase calls that may be made

\* ---------------------------------------------------------- constants
MIN_CLIENT_VERSION == 1
EmptyToken == 0
TtlSeconds == 300      \* Duration::minutes(5), as a timestamp difference

Procs == {"h1", "h2"}            \* request handlers running concurrently
FirstHandler == "h1"             \* the handler of the one-at-a-time runs
UserIds == 1 .. NumUsers
Secrets == 1 .. NumUsers
Keys == 1 .. MaxSessions
Tokens == {EmptyToken} \cup Keys \* what a client may send as a session token
Versions == {MIN_CLIENT_VERSION - 1, MIN_CLIENT_VERSION}  \* u32, both sides
Languages == {"", "en-CA"}
LookupResults == {{}, {"CA"}}    \* what IpDB::lookup may answer
Backends == {"memory", "dynamo"}
Conns == 1 .. MaxConns           \* the WebSockets, in the order they connect
MsgIds == 1 .. MaxMsgs
MsgKinds == {"text", "binary"}
Frames == {"ping", "text", "binary", "close", "error", "eof"}
CloseShutdown == 4000  \* Message::close_with(4000, ..)
BackoffSeconds == 2    \* Duration::from_secs(2)
StatusOk == 200                \* the status of a reply given none
SWITCHING_PROTOCOLS == 101     \* the reply of ws.on_upgrade
ACCEPTED == 202
BAD_REQUEST == 400
INTERNAL_SERVER_ERROR == 500
NoStatus == 0                  \* no reply is sent
VarintBase == 128      \* postcard: 7 bits per varint byte

VARIABLES
    backend,   \* which store implementation the resource was built with
    ipdb,      \* UserLoginResource.ipdb is Some(..)
    sessions,  \* the Session Store: key -> Session
    users,     \* the User Store: id -> User
    pc,        \* per handler: where it is in user_login / user_register
    loc,       \* per handler: its request, its local `user` and `session_id`,
               \* `prior`, the session its `user` named when it was read, and
               \* `before`, the Session Store as the call found it
    resp,      \* the result the last finished request returned
    saveResult,\* what the last direct UserDB::save_user call returned
    now,       \* the clock (Utc::now()), in seconds
    ttl,       \* DynamoSessionDB: key -> the item's `ttl` attribute
    lastRead,  \* key -> when the session was created or last looked up
    getResult, \* what the last direct SessionDB::get call returned
    connUser,  \* per WebSocket: the user id on_connect was called with
    connPc,    \* per WebSocket: where its on_connect is
    regSeq,    \* the WebSockets in the order they entered the registry
    registry,  \* client_channels, as a set of <<user id, channel>> entries
    connected, \* InMemoryPubSub.connected
    shutdown,  \* PubSubSubscriberResource.shutdown
    receiver,  \* PubSubSubscriberResource.client_receive is Some(..)
    lastCall,  \* the last call handed to the RealtimeClientReceive
    published, \* the messages published so far, in order
    pending,   \* the tasks send_msg spawned that have not run yet
    outbound,  \* per WebSocket: what was enqueued on its outbound channel
    forwarding,\* per WebSocket: its forwarding task is running
    urlOk,     \* RedisPubSub.url parses (redis::Client::open succeeds)
    brokerUp,  \* the broker is reachable
    subPc,     \* where the relay's background subscriber task is
    subTimer,  \* seconds left of the subscriber task's sleep
    relayReceiver, \* RedisPubSub.receiver is Some(..)
    relayQueue,    \* messages the broker has sent to the subscriber's stream
    relayLast,     \* the last call the relay made to its receiver
    relayCount,    \* how many calls the relay has made to its receiver
    relayPublished,\* how many messages were published through the relay
    spawned,   \* the tasks client_receive spawned, in the order of the reads
    started,   \* the spawned tasks whose callback has started, in that order
    ssoDb,     \* the SSO store: SsoKey -> the user id of its SsoEntry
    ssoResult, \* what the last set_entry call returned
    receipts,  \* the receipt store: (transaction_id, platform) -> Receipt
    iapPc,     \* per handler: where its validate_purchase is
    iapLoc,    \* per handler: the receipt its validate_purchase built
    iapResp,   \* per handler: what its last validate_purchase returned
    handlerCalls, \* per transaction: how often on_valid_receipt was invoked
    validAnswers, \* per transaction: how many calls answered valid = true
    iapStarted \* how many validate_purchase calls were made

loginVars == <<backend, ipdb, sessions, users, pc, loc, resp>>
userDbVars == <<saveResult>>
ttlVars == <<now, ttl, lastRead, getResult>>
pubsubVars == <<connUser, connPc, regSeq, registry, connected, shutdown,
                receiver, lastCall, published, pending, outbound, forwarding>>
relayVars == <<urlOk, brokerUp, subPc, subTimer, relayReceiver, relayQueue,
               relayLast, relayCount, relayPublished>>
receiveVars == <<spawned, started>>
ssoVars == <<ssoDb, ssoResult>>
iapVars == <<receipts, iapPc, iapLoc, iapResp, handlerCalls, validAnswers,
             iapStarted>>
extraVars == <<receiveVars, ssoVars, iapVars>>
notLoginVars == <<userDbVars, ttlVars, pubsubVars, relayVars, extraVars>>
vars == <<loginVars, userDbVars, ttlVars, pubsubVars, relayVars, extraVars>>

\* ------------------------------------------------------------ helpers
Some(x) == {x}
None == {}
Unwrap(o) == CHOOSE x \in o : TRUE

\* a version check that lets every client through
is_valid_version_Always(client_version) == TRUE

is_valid_version(client_version) == client_version >= MIN_CLIENT_VERSION

\* a conversion that keeps the empty string
string_to_option_Keep(string) == Some(string)

string_to_option(string) == IF string = "" THEN None ELSE Some(string)

Session_new(user_id) == [user_id |-> user_id, valid |-> TRUE]

\* User::new: a fresh random id and secret (the i-th uuid pair), version 0
User_new(id, country, language) ==
    [id |-> id, secret |-> id, version |-> 0, session |-> None,
     country |-> country, language |-> language]

NoUser == [id |-> 0, secret |-> 0, version |-> 0, session |-> None,
           country |-> None, language |-> None]

\* ------------------------------------------------------ Session Store
\* SessionDB::get (InMemorySessionDB::get; DynamoSessionDB::get with the
\* store reachable and the item not yet swept)
SessionGet(db, key) == IF key \in DOMAIN db THEN Some(db[key]) ELSE None

\* an invalidate that deletes the session instead of marking it
SessionInvalidate_Delete(db, key) ==
    [k \in DOMAIN db \ {key} |-> db[k]]

\* an invalidate whose update is not conditional on the item: an unknown
\* key gets an item that holds only the flag
SessionInvalidate_Upsert(db, key) ==
    IF key \in DOMAIN db
    THEN [db EXCEPT ![key].valid = FALSE]
    ELSE (key :> [user_id |-> 0, valid |-> FALSE]) @@ db

\* SessionDB::invalidate: marks an existing session, creates nothing
SessionInvalidate(db, key) ==
    IF key \in DOMAIN db
    THEN [db EXCEPT ![key].valid = FALSE]
    ELSE db

\* Session::new_key: a uuid no session was created under before
NewKey(db) == Cardinality(DOMAIN db) + 1

\* SessionDB::create
SessionCreate(db, key, session) == (key :> session) @@ db

\* --------------------------------------------------------- User Store
UserGet(db, id) == IF id \in DOMAIN db THEN Some(db[id]) ELSE None

\* InMemoryUserDB::save_user: an unconditional insert
MemorySaveUser(db, u) == [ok |-> TRUE, db |-> (u.id :> u) @@ db]

\* DynamoUserDB::save: a put, conditional on `version = u.version - 1`
\* when u.version > 0
DynamoSaveUser(db, u) ==
    IF u.version > 0
    THEN IF u.id \in DOMAIN db /\ db[u.id].version = u.version - 1
         THEN [ok |-> TRUE, db |-> (u.id :> u) @@ db]
         ELSE [ok |-> FALSE, db |-> db]
    ELSE [ok |-> TRUE, db |-> (u.id :> u) @@ db]

\* a save that reports success and stores nothing
SaveUser_Drop(be, db, u) == [ok |-> TRUE, db |-> db]

\* UserDB::save_user of the configured user store
SaveUser(be, db, u) ==
    IF be = "memory" THEN MemorySaveUser(db, u) ELSE DynamoSaveUser(db, u)

\* ------------------------------------------------- validate_session
\* a validation that does not tell a superseded session from an absent one
ValidateSession_NoInvalid(db, token) ==
    LET s == SessionGet(db, token) IN
    IF s # None /\ Unwrap(s).valid
    THEN [result |-> "Ok", user_id |-> Unwrap(s).user_id]
    ELSE [result |-> "Unknown", user_id |-> 0]

\* UserLoginResource::validate_session
ValidateSession(db, token) ==
    LET s == SessionGet(db, token) IN
    IF s # None /\ Unwrap(s).valid
    THEN [result |-> "Ok", user_id |-> Unwrap(s).user_id]
    ELSE IF s # None
         THEN [result |-> "Invalid", user_id |-> 0]
         ELSE [result |-> "Unknown", user_id |-> 0]

\* handle_session (the session filter) followed by handle_rejection
HandleSession(v) ==
    IF v.result = "Ok"
    THEN [op |-> "session_filter", kind |-> "pass", outdated |-> FALSE,
          token |-> EmptyToken, user_id |-> v.user_id, secret |-> 0,
          payload |-> "none"]
    ELSE IF v.result = "Invalid"
         THEN [op |-> "session_filter", kind |-> "reject", outdated |-> FALSE,
               token |-> EmptyToken, user_id |-> 0, secret |-> 0,
               payload |-> "INVALID"]
         ELSE [op |-> "session_filter", kind |-> "reject", outdated |-> FALSE,
               token |-> EmptyToken, user_id |-> 0, secret |-> 0,
               payload |-> "SESSION_NOT_FOUND"]

\* ---------------------------------------------------------- responses
NoResp == [op |-> "none", kind |-> "none", outdated |-> FALSE,
           token |-> EmptyToken, user_id |-> 0, secret |-> 0,
           payload |-> "none"]
\* Ok((LoginResponse / RegisterResponse {isOutdated: true, ..}, String::new()))
OutdatedResp(op) ==
    [op |-> op, kind |-> "ok", outdated |-> TRUE, token |-> EmptyToken,
     user_id |-> 0, secret |-> 0, payload |-> "none"]
\* Ok((.. {isOutdated: false, ..}, session_id)); register adds the credentials
OkResp(op, token, user) ==
    [op |-> op, kind |-> "ok", outdated |-> FALSE, token |-> token,
     user_id |-> user.id,
     secret |-> IF op = "register" THEN user.secret ELSE 0,
     payload |-> "none"]
\* Err(..)
ErrResp(op, what) ==
    [op |-> op, kind |-> "err", outdated |-> FALSE, token |-> EmptyToken,
     user_id |-> 0, secret |-> 0, payload |-> what]
\* a panic of the handler
PanicResp(op) ==
    [op |-> op, kind |-> "panic", outdated |-> FALSE, token |-> EmptyToken,
     user_id |-> 0, secret |-> 0, payload |-> "unwrap on None"]

NoLoc == [user |-> NoUser, session_id |-> EmptyToken, clientLanguage |-> "",
          prior |-> None, before |-> <<>>]

Credentials == [id : UserIds, secret : Secrets]

\* UserLoginResource::country_from_ip
CountryFromIp(lookup) == IF ipdb THEN lookup ELSE None

\* ids handed out so far: stored, or held by a register still running
UsedIds == DOMAIN users \cup {loc[p].user.id : p \in Procs}
\* a session key is left for every handler that is still to create one
Creating == {p \in Procs : pc[p] \in {"login_invalidate", "login_create"}}
CanCreate == Cardinality(DOMAIN sessions) + Cardinality(Creating) < MaxSessions

\* ------------------------------------------------------ purchases
\* enum Platform, by its to_string()
Platforms == {"AppleAppStore", "GooglePlay"}
TransactionIds == {1, 2}
\* the key of the receipt store: (transaction_id, platform.to_string())
Transactions == TransactionIds \X Platforms
\* what the store's response says a transaction is: a subscription or a
\* package; the transactions with id 2 are the subscriptions
IsSubscription(t) == t[1] = 2
Consumables == {t \in Transactions : ~IsSubscription(t)}
\* no receipt built yet
NoReceipt == [user_id |-> 0, transaction |-> <<0, "">>,
              is_subscription |-> FALSE]

\* ----------------------------------------------------------------- Init
\* everything but the relay's url
InitState ==
    /\ backend \in Backends
    /\ ipdb \in BOOLEAN
    /\ sessions = <<>>
    /\ users = <<>>
    /\ pc = [p \in Procs |-> "idle"]
    /\ loc = [p \in Procs |-> NoLoc]
    /\ resp = NoResp
    /\ saveResult = "none"
    /\ now = 0
    /\ ttl = <<>>
    /\ lastRead = <<>>
    /\ getResult = [called |-> FALSE, session |-> None]
    /\ connUser = [c \in Conns |-> 0]
    /\ connPc = [c \in Conns |-> "new"]
    /\ regSeq = <<>>
    /\ registry = {}
    /\ connected = {}
    /\ shutdown = FALSE
    /\ receiver = FALSE
    /\ lastCall = <<>>
    /\ published = <<>>
    /\ pending = {}
    /\ outbound = [c \in Conns |-> <<>>]
    /\ forwarding = [c \in Conns |-> FALSE]
    /\ brokerUp = TRUE
    /\ subPc = "start"
    /\ subTimer = 0
    /\ relayReceiver = FALSE
    /\ relayQueue = <<>>
    /\ relayLast = <<>>
    /\ relayCount = 0
    /\ relayPublished = 0
    /\ spawned = <<>>
    /\ started = <<>>
    /\ ssoDb = <<>>
    /\ ssoResult = "none"
    /\ receipts = <<>>
    /\ iapPc = [p \in Procs |-> "idle"]
    /\ iapLoc = [p \in Procs |-> NoReceipt]
    /\ iapResp = [p \in Procs |-> "none"]
    /\ handlerCalls = [t \in Transactions |-> 0]
    /\ validAnswers = [t \in Transactions |-> 0]
    /\ iapStarted = 0

\* the resources as constructed, the relay with a url that parses
Init == InitState /\ urlOk = TRUE

\* ------------------------------------------------------------ user_login
\* the version check of user_login: an outdated client is answered at once
LoginOutdated(p, v) ==
    /\ pc[p] = "idle"
    /\ ~is_valid_version(v)
    /\ resp' = OutdatedResp("login")
    /\ UNCHANGED <<backend, ipdb, sessions, users, pc, loc>>
    /\ UNCHANGED notLoginVars

\* login_request.user.unwrap() on a request without credentials
LoginNoCredentials(p, v) ==
    /\ pc[p] = "idle"
    /\ is_valid_version(v)
    /\ resp' = PanicResp("login")
    /\ UNCHANGED <<backend, ipdb, sessions, users, pc, loc>>
    /\ UNCHANGED notLoginVars

\* a credentials check that forgets the secret
CredentialsMatch_IdOnly(user, creds) == user.id = creds.id

\* the credentials check of user_login
CredentialsMatch(user, creds) ==
    user.secret = creds.secret /\ user.id = creds.id

\* get_user and the credentials check
LoginGetUser(p, v, c, l) ==
    /\ pc[p] = "idle"
    /\ is_valid_version(v)
    /\ CanCreate
    /\ LET user == UserGet(users, c.id) IN
       IF user # None /\ CredentialsMatch(Unwrap(user), c)
       THEN /\ loc' = [loc EXCEPT ![p] = [user |-> Unwrap(user),
                           session_id |-> EmptyToken, clientLanguage |-> l,
                           prior |-> Unwrap(user).session,
                           before |-> sessions]]
            /\ pc' = [pc EXCEPT ![p] =
                        IF Unwrap(user).session # None
                        THEN "login_invalidate" ELSE "login_create"]
            /\ UNCHANGED resp
       ELSE /\ resp' = ErrResp("login", "failed to retrieve user")
            /\ UNCHANGED <<pc, loc>>
    /\ UNCHANGED <<backend, ipdb, sessions, users>>
    /\ UNCHANGED notLoginVars

\* sessions.invalidate(&session) on the session the user record names
LoginInvalidate(p) ==
    /\ pc[p] = "login_invalidate"
    /\ sessions' = SessionInvalidate(sessions, Unwrap(loc[p].user.session))
    /\ pc' = [pc EXCEPT ![p] = "login_create"]
    /\ UNCHANGED <<backend, ipdb, users, loc, resp>>
    /\ UNCHANGED notLoginVars

\* sessions.create(Session::new(&user.id)), then the local user is updated
LoginCreate(p, lookup) ==
    /\ pc[p] = "login_create"
    /\ LET key == NewKey(sessions) IN
       /\ sessions' = SessionCreate(sessions, key, Session_new(loc[p].user.id))
       /\ loc' = [loc EXCEPT ![p].session_id = key,
                             ![p].user.session = Some(key),
                             ![p].user.country = CountryFromIp(lookup),
                             ![p].user.language =
                                 string_to_option(loc[p].clientLanguage),
                             ![p].user.version = @ + 1]
    /\ pc' = [pc EXCEPT ![p] = "login_save"]
    /\ UNCHANGED <<backend, ipdb, users, resp>>
    /\ UNCHANGED notLoginVars

\* sessions.create(..).await? where DynamoSessionDB::create fails (the
\* put_item is refused or the table is not reached): user_login returns the
\* error at once
LoginCreateFails(p) ==
    /\ pc[p] = "login_create"
    /\ backend = "dynamo"
    /\ resp' = ErrResp("login", "create")
    /\ pc' = [pc EXCEPT ![p] = "idle"]
    /\ loc' = [loc EXCEPT ![p] = NoLoc]
    /\ UNCHANGED <<backend, ipdb, sessions, users>>
    /\ UNCHANGED notLoginVars

\* what an event callback does: there is none, it returns Ok, it returns Err
EventResults == {"none", "ok", "err"}

\* users.save_user(&user), whose error is only logged; then the on_login
\* callback, if events are set, with `?`; then Ok is returned
LoginFinish(p, ev) ==
    /\ pc[p] = "login_save"
    /\ users' = SaveUser(backend, users, loc[p].user).db
    /\ resp' = IF ev = "err"
               THEN ErrResp("login", "on_login")
               ELSE OkResp("login", loc[p].session_id, loc[p].user)
    /\ pc' = [pc EXCEPT ![p] = "idle"]
    /\ loc' = [loc EXCEPT ![p] = NoLoc]
    /\ UNCHANGED <<backend, ipdb, sessions>>
    /\ UNCHANGED notLoginVars

\* the end of user_login with no events set (UserLoginResource::new)
LoginSave(p) == LoginFinish(p, "none")

\* --------------------------------------------------------- user_register
\* the version check of user_register
RegisterOutdated(p, v) ==
    /\ pc[p] = "idle"
    /\ ~is_valid_version(v)
    /\ resp' = OutdatedResp("register")
    /\ UNCHANGED <<backend, ipdb, sessions, users, pc, loc>>
    /\ UNCHANGED notLoginVars

\* the uuid User::new draws: the next id no user was given before
NewUserId == CHOOSE id \in UserIds :
                 id \notin UsedIds /\ \A j \in UserIds : j < id => j \in UsedIds

\* User::new, then sessions.create(Session::new(&new_user.id))
RegisterCreate(p, v, l, lookup) ==
    /\ pc[p] = "idle"
    /\ is_valid_version(v)
    /\ CanCreate
    /\ UserIds \ UsedIds # {}
    /\ LET key == NewKey(sessions)
           new_user == User_new(NewUserId, CountryFromIp(lookup),
                                string_to_option(l)) IN
       /\ sessions' = SessionCreate(sessions, key, Session_new(new_user.id))
       /\ loc' = [loc EXCEPT ![p] = [user |-> [new_user EXCEPT
                                        !.session = Some(key)],
                           session_id |-> key, clientLanguage |-> l,
                           prior |-> None, before |-> sessions]]
    /\ pc' = [pc EXCEPT ![p] = "register_save"]
    /\ UNCHANGED <<backend, ipdb, users, resp>>
    /\ UNCHANGED notLoginVars

\* users.save_user(&new_user)?, then the on_register callback, if events
\* are set, with `?`; then Ok with the credentials is returned
RegisterFinish(p, ev) ==
    /\ pc[p] = "register_save"
    /\ LET r == SaveUser(backend, users, loc[p].user) IN
       /\ users' = r.db
       /\ resp' = IF ~r.ok
                  THEN ErrResp("register", "save_user")
                  ELSE IF ev = "err"
                       THEN ErrResp("register", "on_register")
                       ELSE OkResp("register", loc[p].session_id, loc[p].user)
    /\ pc' = [pc EXCEPT ![p] = "idle"]
    /\ loc' = [loc EXCEPT ![p] = NoLoc]
    /\ UNCHANGED <<backend, ipdb, sessions>>
    /\ UNCHANGED notLoginVars

\* the end of user_register with no events set
RegisterSave(p) == RegisterFinish(p, "none")

\* ------------------------------------------------------- session filter
\* session_filter on a request carrying session token t
SessionFilter(p, t) ==
    /\ pc[p] = "idle"
    /\ resp' = HandleSession(ValidateSession(sessions, t))
    /\ UNCHANGED <<backend, ipdb, sessions, users, pc, loc>>
    /\ UNCHANGED notLoginVars

\* ------------------------------------------- the WebSocket upgrade filter
\* pubsub_filter: what it answers for a validation result
UpgradeResponse(v) ==
    IF v.result = "Ok"
    THEN [op |-> "subscribe", kind |-> "ok", outdated |-> FALSE,
          token |-> EmptyToken, user_id |-> v.user_id, secret |-> 0,
          payload |-> "none"]
    ELSE [op |-> "subscribe", kind |-> "err", outdated |-> FALSE,
          token |-> EmptyToken, user_id |-> 0, secret |-> 0,
          payload |-> "none"]

\* pubsub_filter on an upgrade request carrying session token t
PubSubFilter(p, t) ==
    /\ pc[p] = "idle"
    /\ resp' = UpgradeResponse(ValidateSession(sessions, t))
    /\ UNCHANGED <<backend, ipdb, sessions, users, pc, loc>>
    /\ UNCHANGED notLoginVars

\* --------------------------------------------------------- HTTP statuses
\* login_filter_fn / register_filter_fn: the status for a result
login_filter_status(kind) ==
    IF kind = "ok" THEN StatusOk
    ELSE IF kind = "err" THEN BAD_REQUEST
    ELSE NoStatus

\* handle_rejection: the status for a rejection
handle_rejection_status(kind, payload) ==
    IF kind = "pass" THEN StatusOk
    ELSE IF payload \in {"INVALID", "SESSION_NOT_FOUND"} THEN ACCEPTED
    ELSE INTERNAL_SERVER_ERROR

\* pubsub_filter: the status for a validation result
pubsub_filter_status(kind) ==
    IF kind = "ok" THEN SWITCHING_PROTOCOLS ELSE INTERNAL_SERVER_ERROR

\* the status of the reply that goes out for response r
ReplyStatus(r) ==
    IF r.op \in {"login", "register"} THEN login_filter_status(r.kind)
    ELSE IF r.op = "session_filter"
         THEN handle_rejection_status(r.kind, r.payload)
         ELSE IF r.op = "subscribe" THEN pubsub_filter_status(r.kind)
              ELSE NoStatus

Next ==
    \E p \in Procs :
        \/ \E v \in Versions : LoginOutdated(p, v)
        \/ \E v \in Versions : LoginNoCredentials(p, v)
        \/ \E v \in Versions, c \in Credentials, l \in Languages :
               LoginGetUser(p, v, c, l)
        \/ LoginInvalidate(p)
        \/ \E lookup \in LookupResults : LoginCreate(p, lookup)
        \/ LoginSave(p)
        \/ \E v \in Versions : RegisterOutdated(p, v)
        \/ \E v \in Versions, l \in Languages, lookup \in LookupResults :
               RegisterCreate(p, v, l, lookup)
        \/ RegisterSave(p)
        \/ \E t \in Tokens : SessionFilter(p, t)
        \/ \E t \in Tokens : PubSubFilter(p, t)

\* the login resource serving concurrent requests, the stores reachable
Spec == Init /\ [][Next]_vars

\* the same with events set (set_events): every login and register ends
\* with its callback, which returns Ok or Err
NextEvents ==
    \E p \in Procs :
        \/ \E v \in Versions : LoginOutdated(p, v)
        \/ \E v \in Versions : LoginNoCredentials(p, v)
        \/ \E v \in Versions, c \in Credentials, l \in Languages :
               LoginGetUser(p, v, c, l)
        \/ LoginInvalidate(p)
        \/ \E lookup \in LookupResults : LoginCreate(p, lookup)
        \/ \E ev \in {"ok", "err"} : LoginFinish(p, ev)
        \/ \E v \in Versions : RegisterOutdated(p, v)
        \/ \E v \in Versions, l \in Languages, lookup \in LookupResults :
               RegisterCreate(p, v, l, lookup)
        \/ \E ev \in {"ok", "err"} : RegisterFinish(p, ev)
        \/ \E t \in Tokens : SessionFilter(p, t)
        \/ \E t \in Tokens : PubSubFilter(p, t)

SpecEvents == Init /\ [][NextEvents]_vars

\* ============================================== the User Store alone
\* the records a caller of UserDB::save_user may submit
UserRecords ==
    {[id |-> i, secret |-> i, version |-> n, session |-> s,
      country |-> None, language |-> None] :
        i \in UserIds, n \in 0 .. MaxVersion, s \in {None, Some(1)}}

\* UserDB::save_user(&u), called directly
SaveUserCall(u) ==
    /\ LET r == SaveUser(backend, users, u) IN
       /\ users' = r.db
       /\ saveResult' = IF r.ok THEN "ok" ELSE "conflict"
    /\ UNCHANGED <<backend, ipdb, sessions, pc, loc, resp>>
    /\ UNCHANGED <<ttlVars, pubsubVars, relayVars, extraVars>>

NextUserDb == \E u \in UserRecords : SaveUserCall(u)

\* any sequence of save_user calls on either user store
SpecUserDb == Init /\ [][NextUserDb]_vars

\* =========================================== the Session Store and time
\* DynamoSessionDB::ttl
TtlOf(t) == t + TtlSeconds

\* DynamoSessionDB::get at time t: the update sets the item's ttl first and
\* returns the item as updated (ALL_NEW); the timeout test reads that item
DynamoSessionGet(db, ttls, key, t) ==
    IF key \in DOMAIN db
    THEN LET new_ttl == TtlOf(t)
             item == [session |-> db[key], ttl |-> new_ttl] IN
         [ttls |-> [ttls EXCEPT ![key] = new_ttl],
          session |-> IF item.ttl < t THEN None ELSE Some(item.session)]
    ELSE [ttls |-> ttls, session |-> None]

\* SessionDB::create, called directly for user u
SessionCreateCall(u) ==
    /\ Cardinality(DOMAIN lastRead) < MaxSessions
    /\ LET key == NewKey(lastRead) IN
       /\ sessions' = SessionCreate(sessions, key, Session_new(u))
       /\ ttl' = IF backend = "dynamo" THEN (key :> TtlOf(now)) @@ ttl ELSE ttl
       /\ lastRead' = (key :> now) @@ lastRead
    /\ UNCHANGED <<backend, ipdb, users, pc, loc, resp, now, getResult>>
    /\ UNCHANGED <<userDbVars, pubsubVars, relayVars, extraVars>>

\* SessionDB::invalidate, called directly, on a key the store may not hold
SessionInvalidateCall(key) ==
    /\ sessions' = SessionInvalidate(sessions, key)
    /\ UNCHANGED <<backend, ipdb, users, pc, loc, resp>>
    /\ UNCHANGED <<ttlVars, userDbVars, pubsubVars, relayVars, extraVars>>

\* SessionDB::get, called directly (as validate_session does)
SessionGetCall(key) ==
    /\ LET r == IF backend = "dynamo"
                THEN DynamoSessionGet(sessions, ttl, key, now)
                ELSE [ttls |-> ttl, session |-> SessionGet(sessions, key)] IN
       /\ ttl' = r.ttls
       /\ getResult' = [called |-> TRUE, session |-> r.session]
       /\ lastRead' = IF r.session # None
                      THEN [lastRead EXCEPT ![key] = now]
                      ELSE lastRead
    /\ UNCHANGED <<backend, ipdb, sessions, users, pc, loc, resp, now>>
    /\ UNCHANGED <<userDbVars, pubsubVars, relayVars, extraVars>>

\* time passes: exactly one TTL window, or one second more
Tick(d) ==
    /\ now + d <= MaxClock
    /\ now' = now + d
    /\ UNCHANGED <<loginVars, userDbVars, pubsubVars, relayVars, extraVars, ttl,
                   lastRead, getResult>>

\* the table's TTL sweeper deletes an item whose `ttl` has passed, at some
\* later time of its own choosing
DynamoSweep(key) ==
    /\ backend = "dynamo"
    /\ key \in DOMAIN sessions
    /\ ttl[key] < now
    /\ sessions' = [k \in DOMAIN sessions \ {key} |-> sessions[k]]
    /\ ttl' = [k \in DOMAIN ttl \ {key} |-> ttl[k]]
    /\ UNCHANGED <<backend, ipdb, users, pc, loc, resp>>
    /\ UNCHANGED <<userDbVars, pubsubVars, relayVars, extraVars, now, lastRead,
                   getResult>>

NextSessionTtl ==
    \/ \E u \in UserIds : SessionCreateCall(u)
    \/ \E k \in Tokens : SessionInvalidateCall(k)
    \/ \E k \in Keys : SessionGetCall(k)
    \/ \E d \in {TtlSeconds, TtlSeconds + 1} : Tick(d)
    \/ \E k \in Keys : DynamoSweep(k)

\* either session store under create, invalidate, get and the passing of time
SpecSessionTtl == Init /\ [][NextSessionTtl]_vars

\* ------------------------- the login resource and direct invalidations
NextSessionOps ==
    \/ \E p \in Procs, v \in Versions : LoginOutdated(p, v)
    \/ \E p \in Procs, v \in Versions : LoginNoCredentials(p, v)
    \/ \E p \in Procs, v \in Versions, c \in Credentials, l \in Languages :
          LoginGetUser(p, v, c, l)
    \/ \E p \in Procs : LoginInvalidate(p)
    \/ \E p \in Procs, lookup \in LookupResults : LoginCreate(p, lookup)
    \/ \E p \in Procs : LoginSave(p)
    \/ \E p \in Procs, v \in Versions : RegisterOutdated(p, v)
    \/ \E p \in Procs, v \in Versions, l \in Languages,
          lookup \in LookupResults : RegisterCreate(p, v, l, lookup)
    \/ \E p \in Procs : RegisterSave(p)
    \/ \E p \in Procs, t \in Tokens : SessionFilter(p, t)
    \/ \E k \in Tokens : SessionInvalidateCall(k)

\* login, register and the session filter (a get), with invalidate also
\* called directly on any token
SpecSessionOps == Init /\ [][NextSessionOps]_vars

\* ------------------------------ one handler, a session store that fails
NextFaults ==
    \/ \E v \in Versions, c \in Credentials, l \in Languages :
          LoginGetUser(FirstHandler, v, c, l)
    \/ LoginInvalidate(FirstHandler)
    \/ \E lookup \in LookupResults : LoginCreate(FirstHandler, lookup)
    \/ LoginCreateFails(FirstHandler)
    \/ LoginSave(FirstHandler)
    \/ \E v \in Versions, l \in Languages, lookup \in LookupResults :
          RegisterCreate(FirstHandler, v, l, lookup)
    \/ RegisterSave(FirstHandler)
    \/ \E t \in Tokens : SessionFilter(FirstHandler, t)

\* requests served one at a time, where DynamoSessionDB::create may fail
SpecFaults == Init /\ [][NextFaults]_vars

\* ============================================ the realtime connections
\* HashMap::insert: the entry of user_id is replaced
RegistryInsert_Keep(reg, user_id, c) == reg \cup {<<user_id, c>>}

RegistryInsert(reg, user_id, c) ==
    {e \in reg : e[1] # user_id} \cup {<<user_id, c>>}

\* a remove that leaves the registry as it is
RegistryRemove_Keep(reg, user_id) == reg

\* HashMap::remove: whatever entry user_id has is removed
RegistryRemove(reg, user_id) == {e \in reg : e[1] # user_id}

\* a lookup that finds every registered channel, whatever the topic
RegistryGet_Any(reg, topic) == {e[2] : e \in reg}

\* HashMap::get: the channels found under topic
RegistryGet(reg, topic) == {e[2] : e \in {x \in reg : x[1] = topic}}

\* count_connections
count_connections == Cardinality(registry)

\* ConnectionState::update_status
update_status(set, user_id, isConnected) ==
    IF isConnected THEN set \cup {user_id} ELSE set \ {user_id}

\* the receive callback, when one is set, is handed the call
Notify(call) == IF receiver THEN call ELSE lastCall

\* forward_connection_status: the tracker first, then the callback
forward_connection_status(user_id, isConnected) ==
    /\ connected' = update_status(connected, user_id, isConnected)
    /\ lastCall' = Notify(<<"connection", user_id, isConnected>>)

\* on_connect, up to the registration of the outbound channel
ConnRegister(c, u) ==
    /\ connPc[c] = "new"
    /\ \A b \in Conns : b < c => connPc[b] # "new"
    /\ connUser' = [connUser EXCEPT ![c] = u]
    /\ forwarding' = [forwarding EXCEPT ![c] = TRUE]
    /\ registry' = RegistryInsert(registry, u, c)
    /\ regSeq' = Append(regSeq, c)
    /\ connPc' = [connPc EXCEPT ![c] = "registered"]
    /\ UNCHANGED <<connected, shutdown, receiver, lastCall, published,
                   pending, outbound>>
    /\ UNCHANGED <<loginVars, userDbVars, ttlVars, relayVars, extraVars>>

\* on_connect: the Connected transition
ConnStatusConnected(c) ==
    /\ connPc[c] = "registered"
    /\ forward_connection_status(connUser[c], TRUE)
    /\ connPc' = [connPc EXCEPT ![c] = "loop"]
    /\ UNCHANGED <<connUser, regSeq, registry, shutdown, receiver, published,
                   pending, outbound, forwarding>>
    /\ UNCHANGED <<loginVars, userDbVars, ttlVars, relayVars, extraVars>>

\* a loop that ends on the flag without telling its client
SendClose_Skip(channel) == channel

\* send.send(Ok(Message::close_with(4000, "server shutdown")))
SendClose(channel) == Append(channel, CloseShutdown)

\* client_receive: with a receiver set, a text or binary frame is handed to
\* a task spawned for it (the model follows the first max of them)
Spawn(tasks, c, f, max) ==
    IF f \in {"text", "binary"} /\ receiver /\ Len(tasks) < max
    THEN Append(tasks, [conn |-> c, kind |-> f])
    ELSE tasks

\* on_connect: one turn of the read loop, on frame f (or the stream's end)
ReadFrameUpTo(c, f, max) ==
    /\ connPc[c] = "loop"
    /\ LET u == connUser[c]
           breaks == f \in {"close", "error", "eof"}
           closes == ~breaks /\ shutdown IN
       /\ connected' = IF f = "ping"
                       THEN update_status(connected, u, TRUE)
                       ELSE connected
       /\ spawned' = Spawn(spawned, c, f, max)
       /\ outbound' = IF closes /\ forwarding[c]
                      THEN [outbound EXCEPT ![c] = SendClose(@)]
                      ELSE outbound
       /\ connPc' = IF breaks \/ closes
                    THEN [connPc EXCEPT ![c] = "leaving"]
                    ELSE connPc
    /\ UNCHANGED <<connUser, regSeq, registry, shutdown, receiver, lastCall,
                   published, pending, forwarding>>
    /\ UNCHANGED <<loginVars, userDbVars, ttlVars, relayVars, started, ssoVars,
                   iapVars>>

\* the read loop where the tasks of client_receive are not followed
ConnFrame(c, f) == ReadFrameUpTo(c, f, 0)

\* on_connect, after the loop: the registry entry of user_id is removed
ConnRemove(c) ==
    /\ connPc[c] = "leaving"
    /\ registry' = RegistryRemove(registry, connUser[c])
    /\ connPc' = [connPc EXCEPT ![c] = "removed"]
    /\ UNCHANGED <<connUser, regSeq, connected, shutdown, receiver, lastCall,
                   published, pending, outbound, forwarding>>
    /\ UNCHANGED <<loginVars, userDbVars, ttlVars, relayVars, extraVars>>

\* on_connect: the Disconnected transition
ConnStatusDisconnected(c) ==
    /\ connPc[c] = "removed"
    /\ forward_connection_status(connUser[c], FALSE)
    /\ connPc' = [connPc EXCEPT ![c] = "closed"]
    /\ UNCHANGED <<connUser, regSeq, registry, shutdown, receiver, published,
                   pending, outbound, forwarding>>
    /\ UNCHANGED <<loginVars, userDbVars, ttlVars, relayVars, extraVars>>

\* the forwarding task of a closed socket ends: its channel is closed
ForwardEnd(c) ==
    /\ forwarding[c]
    /\ connPc[c] \in {"leaving", "removed", "closed"}
    /\ forwarding' = [forwarding EXCEPT ![c] = FALSE]
    /\ UNCHANGED <<connUser, connPc, regSeq, registry, connected, shutdown,
                   receiver, lastCall, published, pending, outbound>>
    /\ UNCHANGED <<loginVars, userDbVars, ttlVars, relayVars, extraVars>>

\* PubSubSubscriberResource::shutdown
Shutdown ==
    /\ ~shutdown
    /\ shutdown' = TRUE
    /\ UNCHANGED <<connUser, connPc, regSeq, registry, connected, receiver,
                   lastCall, published, pending, outbound, forwarding>>
    /\ UNCHANGED <<loginVars, userDbVars, ttlVars, relayVars, extraVars>>

\* PubSubSubscriberResource::set_receiver
SetReceiver ==
    /\ ~receiver
    /\ receiver' = TRUE
    /\ UNCHANGED <<connUser, connPc, regSeq, registry, connected, shutdown,
                   lastCall, published, pending, outbound, forwarding>>
    /\ UNCHANGED <<loginVars, userDbVars, ttlVars, relayVars, extraVars>>

\* publish_text / publish_binary -> on_text / on_binary -> send_msg: the
\* delivery is spawned as a task and the publisher returns
PublishUpTo(topic, kind, max) ==
    /\ Len(published) < max
    /\ published' = Append(published,
                           [topic |-> topic, kind |-> kind,
                            at |-> Len(regSeq),
                            hadEntry |-> RegistryGet(registry, topic) # {}])
    /\ pending' = pending \cup {Len(published) + 1}
    /\ UNCHANGED <<connUser, connPc, regSeq, registry, connected, shutdown,
                   receiver, lastCall, outbound, forwarding>>
    /\ UNCHANGED <<loginVars, userDbVars, ttlVars, relayVars, extraVars>>

Publish(topic, kind) == PublishUpTo(topic, kind, MaxMsgs)

\* the task send_msg spawned: look the topic up, enqueue on what is found
SendTask(m) ==
    /\ m \in pending
    /\ pending' = pending \ {m}
    /\ outbound' = [c \in Conns |->
                       IF c \in RegistryGet(registry, published[m].topic)
                          /\ forwarding[c]
                       THEN Append(outbound[c], m)
                       ELSE outbound[c]]
    /\ UNCHANGED <<connUser, connPc, regSeq, registry, connected, shutdown,
                   receiver, lastCall, published, forwarding>>
    /\ UNCHANGED <<loginVars, userDbVars, ttlVars, relayVars, extraVars>>

NextPubSub ==
    \/ \E c \in Conns, u \in UserIds : ConnRegister(c, u)
    \/ \E c \in Conns : ConnStatusConnected(c)
    \/ \E c \in Conns, f \in Frames : ConnFrame(c, f)
    \/ \E c \in Conns : ConnRemove(c)
    \/ \E c \in Conns : ConnStatusDisconnected(c)
    \/ \E c \in Conns : ForwardEnd(c)
    \/ Shutdown
    \/ SetReceiver
    \/ \E u \in UserIds, k \in MsgKinds : Publish(u, k)
    \/ \E m \in MsgIds : SendTask(m)

\* the realtime resources do not touch the stores: one store setup is enough
InitPubSub == Init /\ backend = "memory" /\ ~ipdb

\* WebSockets connecting and ending, publishers and shutdown, interleaved
SpecPubSub == InitPubSub /\ [][NextPubSub]_vars


\* ------------------------------------------- one WebSocket, two messages
FirstConn == 1

PublishMore(topic, kind) == PublishUpTo(topic, kind, MaxOrderMsgs)

NextOneConn ==
    \/ \E u \in UserIds : ConnRegister(FirstConn, u)
    \/ ConnStatusConnected(FirstConn)
    \/ \E f \in Frames : ConnFrame(FirstConn, f)
    \/ ConnRemove(FirstConn)
    \/ ConnStatusDisconnected(FirstConn)
    \/ \E u \in UserIds, k \in MsgKinds : PublishMore(u, k)
    \/ \E m \in 1 .. MaxOrderMsgs : SendTask(m)

\* one WebSocket connecting and ending while messages are published
SpecOneConn == InitPubSub /\ [][NextOneConn]_vars

\* ------------------------------------- one WebSocket, its receive tasks
\* the read loop where the tasks of client_receive are followed
ConnFrameSpawn(c, f) == ReadFrameUpTo(c, f, MaxFrames)

\* a task client_receive spawned gets to run: its callback starts
CallTask(i) ==
    /\ i \in DOMAIN spawned
    /\ \A k \in DOMAIN started : started[k] # i
    /\ started' = Append(started, i)
    /\ lastCall' = <<spawned[i].kind, connUser[spawned[i].conn]>>
    /\ UNCHANGED <<connUser, connPc, regSeq, registry, connected, shutdown,
                   receiver, published, pending, outbound, forwarding>>
    /\ UNCHANGED <<loginVars, userDbVars, ttlVars, relayVars, spawned, ssoVars,
                   iapVars>>

NextReceive ==
    \/ \E u \in UserIds : ConnRegister(FirstConn, u)
    \/ ConnStatusConnected(FirstConn)
    \/ \E f \in Frames : ConnFrameSpawn(FirstConn, f)
    \/ ConnRemove(FirstConn)
    \/ ConnStatusDisconnected(FirstConn)
    \/ SetReceiver
    \/ \E i \in 1 .. MaxFrames : CallTask(i)

\* one WebSocket sending frames to a receiver
SpecReceive == InitPubSub /\ [][NextReceive]_vars

\* ======================================================= the SSO store
\* enum Provider
Providers == {"Facebook", "SignInWithApple"}
ProviderIds == {1, 2}
\* struct SsoEntry
SsoEntries == [user_id : UserIds, provider : Providers,
               provider_id : ProviderIds]
\* struct SsoKey, built from an entry
SsoKeyOf(entry) == <<entry.provider, entry.provider_id>>
SsoKeys == Providers \X ProviderIds

\* HashMap::get / DynamoSsoDB::load
SsoLoad(db, key) == IF key \in DOMAIN db THEN Some(db[key]) ELSE None

\* the check of set_entry: map(|e| e.user_id != entry.user_id)
\*                          .unwrap_or_default()
AssignedDifferently(found, entry) ==
    found # None /\ Unwrap(found).user_id # entry.user_id

\* a set_entry that inserts without looking
MemorySetEntry_Overwrite(db, entry) ==
    [db |-> (SsoKeyOf(entry) :> entry) @@ db, result |-> "Success"]

\* InMemorySsoDB::set_entry, under the lock of the map
MemorySetEntry(db, entry) ==
    IF AssignedDifferently(SsoLoad(db, SsoKeyOf(entry)), entry)
    THEN [db |-> db, result |-> "AlreadyAssignedDifferently"]
    ELSE [db |-> (SsoKeyOf(entry) :> entry) @@ db, result |-> "Success"]

\* DynamoSsoDB::save: load, then put_item
DynamoSsoSave(db, entry) ==
    IF AssignedDifferently(SsoLoad(db, SsoKeyOf(entry)), entry)
    THEN [db |-> db, result |-> "AlreadyAssignedDifferently"]
    ELSE [db |-> (SsoKeyOf(entry) :> entry) @@ db, result |-> "Success"]

\* SsoDB::set_entry of the configured store
SsoSetEntry(be, db, entry) ==
    IF be = "memory" THEN MemorySetEntry(db, entry)
    ELSE DynamoSsoSave(db, entry)

\* one set_entry call
SetEntry(entry) ==
    /\ ssoDb' = SsoSetEntry(backend, ssoDb, entry).db
    /\ ssoResult' = SsoSetEntry(backend, ssoDb, entry).result
    /\ UNCHANGED <<loginVars, userDbVars, ttlVars, pubsubVars, relayVars,
                   receiveVars, iapVars>>

\* one get_entry call
GetEntry(key) ==
    /\ ssoResult' = IF SsoLoad(ssoDb, key) # None THEN "Entry" ELSE "Err"
    /\ UNCHANGED <<loginVars, userDbVars, ttlVars, pubsubVars, relayVars,
                   receiveVars, iapVars, ssoDb>>

NextSso ==
    \/ \E entry \in SsoEntries : SetEntry(entry)
    \/ \E key \in SsoKeys : GetEntry(key)

InitSso == Init /\ ~ipdb

\* set_entry and get_entry calls, one after the other
SpecSso == InitSso /\ [][NextSso]_vars

\* ==================================================== validate_purchase
\* Receipt::new
Receipt_new(user_id, t, is_subscription) ==
    [user_id |-> user_id, transaction |-> t,
     is_subscription |-> is_subscription]

\* ReceiptDB::get_receipt
GetReceipt(db, t) == IF t \in DOMAIN db THEN Some(db[t]) ELSE None

\* InMemoryReceiptDB::save_receipt: HashMap::insert
SaveReceipt(db, r) == (r.transaction :> r) @@ db

\* a check that lets a consumed product through
AlreadyConsumed_Never(db, r) == FALSE

\* !is_subscription && receipts.get_receipt(..).is_some()
AlreadyConsumed(db, r) ==
    ~r.is_subscription /\ GetReceipt(db, r.transaction) # None

\* what validate_apple / validate_google give: Err, or a PurchaseResponse
ValidatorResults == {"valid", "invalid", "err"}

\* validate_purchase, up to the look-up of the stored receipt
IapCheck(p, user_id, t, validation) ==
    /\ iapPc[p] = "idle"
    /\ iapStarted < MaxIapCalls
    /\ iapStarted' = iapStarted + 1
    /\ LET receipt == Receipt_new(user_id, t, IsSubscription(t)) IN
       IF validation = "err"
       THEN /\ iapResp' = [iapResp EXCEPT ![p] = "err"]
            /\ UNCHANGED <<iapPc, iapLoc>>
       ELSE IF validation = "invalid" \/ AlreadyConsumed(receipts, receipt)
            THEN /\ iapResp' = [iapResp EXCEPT ![p] = "invalid"]
                 /\ UNCHANGED <<iapPc, iapLoc>>
            ELSE /\ iapPc' = [iapPc EXCEPT ![p] = "handler"]
                 /\ iapLoc' = [iapLoc EXCEPT ![p] = receipt]
                 /\ iapResp' = [iapResp EXCEPT ![p] = "none"]
    /\ UNCHANGED <<receipts, handlerCalls, validAnswers>>
    /\ UNCHANGED <<loginVars, userDbVars, ttlVars, pubsubVars, relayVars,
                   receiveVars, ssoVars>>

\* handler.on_valid_receipt(&receipt).await?
IapHandler(p, ev) ==
    /\ iapPc[p] = "handler"
    /\ handlerCalls' = [handlerCalls EXCEPT ![iapLoc[p].transaction] = @ + 1]
    /\ IF ev = "err"
       THEN /\ iapResp' = [iapResp EXCEPT ![p] = "err"]
            /\ iapPc' = [iapPc EXCEPT ![p] = "idle"]
            /\ iapLoc' = [iapLoc EXCEPT ![p] = NoReceipt]
       ELSE /\ iapPc' = [iapPc EXCEPT ![p] = "save"]
            /\ UNCHANGED <<iapResp, iapLoc>>
    /\ UNCHANGED <<receipts, validAnswers, iapStarted>>
    /\ UNCHANGED <<loginVars, userDbVars, ttlVars, pubsubVars, relayVars,
                   receiveVars, ssoVars>>

\* receipts.save_receipt(receipt.clone()).await?, then Ok with valid: true
IapSave(p) ==
    /\ iapPc[p] = "save"
    /\ receipts' = SaveReceipt(receipts, iapLoc[p])
    /\ iapResp' = [iapResp EXCEPT ![p] = "valid"]
    /\ validAnswers' = [validAnswers EXCEPT ![iapLoc[p].transaction] = @ + 1]
    /\ iapPc' = [iapPc EXCEPT ![p] = "idle"]
    /\ iapLoc' = [iapLoc EXCEPT ![p] = NoReceipt]
    /\ UNCHANGED <<handlerCalls, iapStarted>>
    /\ UNCHANGED <<loginVars, userDbVars, ttlVars, pubsubVars, relayVars,
                   receiveVars, ssoVars>>

NextIapSeq ==
    \/ \E u \in UserIds, t \in Transactions, v \in ValidatorResults :
          IapCheck(FirstHandler, u, t, v)
    \/ \E ev \in {"ok", "err"} : IapHandler(FirstHandler, ev)
    \/ IapSave(FirstHandler)

InitIap == Init /\ backend = "memory" /\ ~ipdb

\* validate_purchase calls, one after the other
SpecIapSeq == InitIap /\ [][NextIapSeq]_vars

NextIap ==
    \/ \E p \in Procs, u \in UserIds, t \in Transactions,
          v \in ValidatorResults : IapCheck(p, u, t, v)
    \/ \E p \in Procs : IapHandler(p, "ok")
    \/ \E p \in Procs : IapSave(p)

\* overlapping validate_purchase calls, with an event handler that succeeds
SpecIap == InitIap /\ [][NextIap]_vars

\* ================================================== the relay backbone
RelayPrefix == "atlas/"
\* a topic is a string: a sequence of pieces, one of which is the prefix
Topics == {<<>>, <<"u">>, <<RelayPrefix, "u">>}
\* enum Msg { Text(String), Binary(Vec<u8>) } over short payloads
RelayMsgs ==
    {[kind |-> "Text", payload |-> b] : b \in {<<>>, <<1>>}}
    \cup {[kind |-> "Binary", payload |-> b] : b \in {<<>>, <<200>>, <<1, 200>>}}
\* payloads on "atlas/.." channels that no publish_msg wrote
ForeignBytes == {<<7>>, <<0, 2, 1>>, <<0, 1, 200>>}

RECURSIVE Varint(_)
\* postcard's varint of n: 7 bits a byte, low bits first
Varint(n) ==
    IF n < VarintBase THEN <<n>>
    ELSE <<VarintBase + (n % VarintBase)>> \o Varint(n \div VarintBase)

RECURSIVE TakeVarint(_)
\* read a varint off the front of bytes: Some([value, rest]) or None
TakeVarint(bytes) ==
    IF bytes = <<>> THEN None
    ELSE IF Head(bytes) < VarintBase
         THEN Some([value |-> Head(bytes), rest |-> Tail(bytes)])
         ELSE LET more == TakeVarint(Tail(bytes)) IN
              IF more = None THEN None
              ELSE Some([value |-> (Head(bytes) - VarintBase)
                                       + VarintBase * Unwrap(more).value,
                         rest |-> Unwrap(more).rest])

\* the index serde gives each variant of Msg
VariantIndex(kind) == IF kind = "Text" THEN 0 ELSE 1

\* str::from_utf8 on the payloads of the model: a byte below 128 is a
\* character, a byte from 128 on its own is not
IsUtf8(bytes) == \A i \in DOMAIN bytes : bytes[i] < VarintBase

\* postcard::to_stdvec(&msg)
to_stdvec(msg) ==
    Varint(VariantIndex(msg.kind)) \o Varint(Len(msg.payload)) \o msg.payload

\* a decoder that reads every variant as Text
from_bytes_AllText(bytes) ==
    LET len == TakeVarint(Tail(bytes)) IN
    IF bytes = <<>> \/ len = None THEN None
    ELSE Some([kind |-> "Text", payload |-> Unwrap(len).rest])

\* postcard::from_bytes::<Msg>(payload): Some(msg), or None for an error
from_bytes(bytes) ==
    LET tag == TakeVarint(bytes) IN
    IF tag = None \/ Unwrap(tag).value \notin {0, 1} THEN None
    ELSE LET len == TakeVarint(Unwrap(tag).rest) IN
         IF len = None \/ Len(Unwrap(len).rest) < Unwrap(len).value THEN None
         ELSE LET body == SubSeq(Unwrap(len).rest, 1, Unwrap(len).value) IN
              IF Unwrap(tag).value = 0
              THEN IF IsUtf8(body)
                   THEN Some([kind |-> "Text", payload |-> body])
                   ELSE None
              ELSE Some([kind |-> "Binary", payload |-> body])

\* format!("atlas/{}", topic)
ChannelOf(topic) == <<RelayPrefix>> \o topic

RECURSIVE StripPrefix_All(_)
\* a strip that takes every leading prefix off
StripPrefix_All(channel) ==
    IF channel # <<>> /\ Head(channel) = RelayPrefix
    THEN LET more == StripPrefix_All(Tail(channel)) IN
         IF more = None THEN Some(Tail(channel)) ELSE more
    ELSE None

\* topic.strip_prefix("atlas/")
StripPrefix(channel) ==
    IF channel # <<>> /\ Head(channel) = RelayPrefix
    THEN Some(Tail(channel))
    ELSE None

\* what the loop of RedisPubSub::new does when an attempt is over: it exits
AfterAttempt_Exit == "exited"

\* what the loop of RedisPubSub::new does when an attempt is over: it sleeps
AfterAttempt == "sleeping"

\* PubSubSubcribable::subscribe
RelaySubscribe ==
    /\ ~relayReceiver
    /\ relayReceiver' = TRUE
    /\ UNCHANGED <<urlOk, brokerUp, subPc, subTimer, relayQueue, relayLast,
                   relayCount, relayPublished>>
    /\ UNCHANGED <<loginVars, userDbVars, ttlVars, pubsubVars, extraVars>>

\* the broker hands a message on a channel to the pattern subscriber, if
\* there is one; otherwise the message is gone
BrokerDeliver(channel, bytes) ==
    IF brokerUp /\ subPc = "subscribed"
    THEN Append(relayQueue, [channel |-> channel, bytes |-> bytes])
    ELSE relayQueue

\* publish_text / publish_binary -> publish_msg
RelayPublish(topic, msg) ==
    /\ relayPublished < MaxRelayMsgs
    /\ Len(relayQueue) < MaxInFlight
    /\ relayPublished' = relayPublished + 1
    /\ relayQueue' = BrokerDeliver(ChannelOf(topic), to_stdvec(msg))
    /\ UNCHANGED <<urlOk, brokerUp, subPc, subTimer, relayReceiver, relayLast,
                   relayCount>>
    /\ UNCHANGED <<loginVars, userDbVars, ttlVars, pubsubVars, extraVars>>

\* another client of the broker publishes on a channel under the pattern
ForeignPublish(topic, bytes) ==
    /\ relayPublished < MaxRelayMsgs
    /\ Len(relayQueue) < MaxInFlight
    /\ relayPublished' = relayPublished + 1
    /\ relayQueue' = BrokerDeliver(ChannelOf(topic), bytes)
    /\ UNCHANGED <<urlOk, brokerUp, subPc, subTimer, relayReceiver, relayLast,
                   relayCount>>
    /\ UNCHANGED <<loginVars, userDbVars, ttlVars, pubsubVars, extraVars>>

\* the broker becomes unreachable
BrokerDown ==
    /\ brokerUp
    /\ brokerUp' = FALSE
    /\ UNCHANGED <<urlOk, subPc, subTimer, relayReceiver, relayQueue,
                   relayLast, relayCount, relayPublished>>
    /\ UNCHANGED <<loginVars, userDbVars, ttlVars, pubsubVars, extraVars>>

\* the broker becomes reachable again
BrokerBack ==
    /\ ~brokerUp
    /\ brokerUp' = TRUE
    /\ UNCHANGED <<urlOk, subPc, subTimer, relayReceiver, relayQueue,
                   relayLast, relayCount, relayPublished>>
    /\ UNCHANGED <<loginVars, userDbVars, ttlVars, pubsubVars, extraVars>>

\* the attempt is over (an error that was logged, or Ok): the loop sleeps
EndAttempt ==
    /\ subPc' = AfterAttempt
    /\ subTimer' = BackoffSeconds
    /\ relayQueue' = <<>>

\* subscriber_task: redis::Client::open(url)?
SubOpen ==
    /\ subPc = "start"
    /\ IF urlOk
       THEN subPc' = "connecting" /\ UNCHANGED <<subTimer, relayQueue>>
       ELSE EndAttempt
    /\ UNCHANGED <<urlOk, brokerUp, relayReceiver, relayLast, relayCount,
                   relayPublished>>
    /\ UNCHANGED <<loginVars, userDbVars, ttlVars, pubsubVars, extraVars>>

\* subscriber_task: client.get_tokio_connection().await?
SubConnect ==
    /\ subPc = "connecting"
    /\ IF brokerUp
       THEN subPc' = "subscribing" /\ UNCHANGED <<subTimer, relayQueue>>
       ELSE EndAttempt
    /\ UNCHANGED <<urlOk, brokerUp, relayReceiver, relayLast, relayCount,
                   relayPublished>>
    /\ UNCHANGED <<loginVars, userDbVars, ttlVars, pubsubVars, extraVars>>

\* subscriber_task: pubsub.psubscribe("atlas/*").await?
SubPsubscribe ==
    /\ subPc = "subscribing"
    /\ IF brokerUp
       THEN subPc' = "subscribed" /\ UNCHANGED <<subTimer, relayQueue>>
       ELSE EndAttempt
    /\ UNCHANGED <<urlOk, brokerUp, relayReceiver, relayLast, relayCount,
                   relayPublished>>
    /\ UNCHANGED <<loginVars, userDbVars, ttlVars, pubsubVars, extraVars>>

\* RedisPubSub::forward: the call it makes to the receiver, if any
ForwardCall(topic, payload) ==
    LET msg == from_bytes(payload) IN
    IF msg # None /\ relayReceiver
    THEN Some([kind |-> Unwrap(msg).kind, topic |-> topic,
               payload |-> Unwrap(msg).payload])
    ELSE None

\* subscriber_task: one turn of the loop over the message stream
SubForward ==
    /\ subPc = "subscribed"
    /\ relayQueue # <<>>
    /\ LET msg == Head(relayQueue)
           topic == StripPrefix(msg.channel)
           call == IF topic = None THEN None
                   ELSE ForwardCall(Unwrap(topic), msg.bytes) IN
       /\ relayLast' = IF call = None THEN relayLast ELSE Unwrap(call)
       /\ relayCount' = IF call = None THEN relayCount ELSE relayCount + 1
    /\ relayQueue' = Tail(relayQueue)
    /\ UNCHANGED <<urlOk, brokerUp, subPc, subTimer, relayReceiver,
                   relayPublished>>
    /\ UNCHANGED <<loginVars, userDbVars, ttlVars, pubsubVars, extraVars>>

\* subscriber_task: the message stream ends (the connection is lost)
SubStreamEnd ==
    /\ subPc = "subscribed"
    /\ ~brokerUp
    /\ EndAttempt
    /\ UNCHANGED <<urlOk, brokerUp, relayReceiver, relayLast, relayCount,
                   relayPublished>>
    /\ UNCHANGED <<loginVars, userDbVars, ttlVars, pubsubVars, extraVars>>

\* tokio::time::sleep(Duration::from_secs(2)): a second passes
SubSleep ==
    /\ subPc = "sleeping"
    /\ subTimer > 0
    /\ subTimer' = subTimer - 1
    /\ UNCHANGED <<urlOk, brokerUp, subPc, relayReceiver, relayQueue,
                   relayLast, relayCount, relayPublished>>
    /\ UNCHANGED <<loginVars, userDbVars, ttlVars, pubsubVars, extraVars>>

\* the sleep is over: the loop starts the next attempt
SubWake ==
    /\ subPc = "sleeping"
    /\ subTimer = 0
    /\ subPc' = "start"
    /\ UNCHANGED <<urlOk, brokerUp, subTimer, relayReceiver, relayQueue,
                   relayLast, relayCount, relayPublished>>
    /\ UNCHANGED <<loginVars, userDbVars, ttlVars, pubsubVars, extraVars>>

\* the steps of the background task RedisPubSub::new spawns
SubscriberTask ==
    \/ SubOpen
    \/ SubConnect
    \/ SubPsubscribe
    \/ SubForward
    \/ SubStreamEnd
    \/ SubSleep
    \/ SubWake

NextRelay ==
    \/ RelaySubscribe
    \/ \E t \in Topics, m \in RelayMsgs : RelayPublish(t, m)
    \/ \E t \in Topics, b \in ForeignBytes : ForeignPublish(t, b)
    \/ BrokerDown
    \/ BrokerBack
    \/ SubOpen
    \/ SubConnect
    \/ SubPsubscribe
    \/ SubForward
    \/ SubStreamEnd
    \/ SubSleep
    \/ SubWake

\* RedisPubSub::new, with a url that parses or one that does not
InitRelay == InitState /\ urlOk \in BOOLEAN /\ backend = "memory" /\ ~ipdb

\* the relay: publishers, the broker coming and going, the subscriber task
SpecRelay == InitRelay /\ [][NextRelay]_vars

\* the runtime keeps running the subscriber task
SpecRelayFair == SpecRelay /\ WF_vars(SubscriberTask)

\* ======================================================== the claims
\* what validate_session is to answer for token t in store db, read off the
\* store alone
Holds(db, t) == t \in DOMAIN db
ValidOf(db, u) == {k \in DOMAIN db : db[k].user_id = u /\ db[k].valid}

\* C1: when a login of user U returns successfully with token S2, the
\* session S1 that U held (the one U's record named when the login read it)
\* validates as Invalid, not Unknown, and S2 validates as Ok with U's id.
C1_SupersededOnLogin ==
    [][\A p \in Procs :
          LoginSave(p) =>
              /\ \A s1 \in loc[p].prior :
                     ValidateSession(sessions', s1).result = "Invalid"
              /\ ValidateSession(sessions', resp'.token) =
                     [result |-> "Ok", user_id |-> loc[p].user.id]
              /\ resp'.kind = "ok" /\ ~resp'.outdated]_vars

\* a login has returned a token to a user one of whose earlier sessions is
\* now superseded
C1_Witness ==
    /\ resp.op = "login" /\ resp.kind = "ok" /\ ~resp.outdated
    /\ Holds(sessions, resp.token) /\ sessions[resp.token].valid
    /\ \E k \in DOMAIN sessions :
           /\ k # resp.token
           /\ sessions[k].user_id = resp.user_id
           /\ ~sessions[k].valid

\* C2: in every reachable state, whatever the interleaving of register and
\* login requests, each user id has at most one session with valid = true.
C2_OneValidSessionPerUser ==
    \A u \in UserIds : Cardinality(ValidOf(sessions, u)) <= 1

\* C3: the session filter on token t lets the request through with the
\* session's user id exactly when the store holds a valid session under t,
\* rejects with INVALID exactly when it holds one that is not valid, and with
\* SESSION_NOT_FOUND exactly when it holds none.
C3_ValidateSession ==
    [][\A p \in Procs, t \in Tokens :
          SessionFilter(p, t) =>
              /\ (Holds(sessions, t) /\ sessions[t].valid) <=>
                     (resp'.kind = "pass")
              /\ resp'.kind = "pass" => resp'.user_id = sessions[t].user_id
              /\ (Holds(sessions, t) /\ ~sessions[t].valid) <=>
                     (resp'.kind = "reject" /\ resp'.payload = "INVALID")
              /\ ~Holds(sessions, t) <=>
                     (resp'.kind = "reject"
                         /\ resp'.payload = "SESSION_NOT_FOUND")]_vars

\* the filter has rejected a superseded session as INVALID
C3_Witness ==
    /\ resp.op = "session_filter" /\ resp.payload = "INVALID"
    /\ \E k \in DOMAIN sessions : ~sessions[k].valid

\* C4: a login with a supported client version, for an id no user is stored
\* under or with a secret that differs from the stored one, returns an error
\* and no token, and changes neither store; the handler does nothing more.
C4_LoginAuthFailure ==
    [][\A p \in Procs, v \in Versions, c \in Credentials, l \in Languages :
          (/\ LoginGetUser(p, v, c, l)
           /\ v >= MIN_CLIENT_VERSION
           /\ (c.id \notin DOMAIN users \/ users[c.id].secret # c.secret))
          => /\ resp'.op = "login" /\ resp'.kind = "err"
             /\ resp'.token = EmptyToken
             /\ sessions' = sessions /\ users' = users
             /\ pc'[p] = "idle"]_vars

\* a login was refused while users and sessions are stored
C4_Witness ==
    /\ resp.op = "login" /\ resp.kind = "err"
    /\ DOMAIN users # {} /\ DOMAIN sessions # {}

\* C5: after every login that returns success, not outdated, the stored
\* user's session is the returned token, its version is one greater than the
\* version the login read, and the store holds a valid session of that user
\* under the token.
C5_LoginPersistsUser ==
    [][\A p \in Procs :
          LoginSave(p) =>
              LET id == loc[p].user.id
                  before == loc[p].user.version - 1 IN
              (resp'.kind = "ok" /\ ~resp'.outdated) =>
                  /\ id \in DOMAIN users'
                  /\ users'[id].session = Some(resp'.token)
                  /\ users'[id].version = before + 1
                  /\ Holds(sessions', resp'.token)
                  /\ sessions'[resp'.token] = Session_new(id)]_vars

\* C6: a login or register request with a client version below the minimum
\* is answered Ok with outdated = true and an empty token, and leaves both
\* stores as they were; the handler does nothing more.
LoginRequest(p, v, c, l) ==
    LoginOutdated(p, v) \/ LoginNoCredentials(p, v) \/ LoginGetUser(p, v, c, l)
RegisterRequest(p, v, l, lookup) ==
    RegisterOutdated(p, v) \/ RegisterCreate(p, v, l, lookup)

C6_OutdatedClient ==
    [][\A p \in Procs, v \in Versions, c \in Credentials, l \in Languages,
          lookup \in LookupResults :
          (/\ v < MIN_CLIENT_VERSION
           /\ LoginRequest(p, v, c, l) \/ RegisterRequest(p, v, l, lookup))
          => /\ resp'.kind = "ok" /\ resp'.outdated
             /\ resp'.token = EmptyToken
             /\ sessions' = sessions /\ users' = users
             /\ pc'[p] = "idle"]_vars

\* an outdated client was answered while users and sessions are stored
C6_Witness ==
    /\ resp.kind = "ok" /\ resp.outdated /\ resp.token = EmptyToken
    /\ DOMAIN users # {} /\ DOMAIN sessions # {}

C8_StaleSaveRejected ==
    [][\A u \in UserRecords :
          (SaveUserCall(u) /\ u.id \in DOMAIN users) =>
              LET stored == users[u.id] IN
              /\ u.version = stored.version + 1 =>
                     /\ saveResult' = "ok"
                     /\ users'[u.id] = u
                     /\ users'[u.id].version = stored.version + 1
              /\ u.version <= stored.version =>
                     /\ saveResult' = "conflict"
                     /\ users' = users]_vars

\* C9: a lookup of a session that was neither created nor successfully
\* looked up within the last TtlSeconds answers None (validate_session:
\* Unknown), even if the session was never invalidated.
C9_UnreadSessionExpires ==
    [][\A k \in Keys :
          (/\ SessionGetCall(k)
           /\ k \in DOMAIN lastRead
           /\ now > lastRead[k] + TtlSeconds)
          => getResult'.session = None]_vars

\* position of WebSocket c in the order of registration
RegPos(c) == CHOOSE i \in 1 .. Len(regSeq) : regSeq[i] = c
Registered(c) == connPc[c] # "new"
IsOpen(c) == connPc[c] \in {"registered", "loop"}
\* the registered WebSockets of user u
ConnsOf(u) == {c \in Conns : Registered(c) /\ connUser[c] = u}

C11_UnregisteredTopicDropped ==
    [][\A m \in MsgIds :
          (SendTask(m) /\ ~published[m].hadEntry) => outbound' = outbound]_vars

\* C12: on every outbound channel the messages sit in the order in which
\* they were published.
C12_PublishOrderKept ==
    \A c \in Conns : \A i, j \in DOMAIN outbound[c] :
        i < j => outbound[c][i] < outbound[c][j]

\* the frames on which the read loop breaks before it looks at the flag
Breaks == {"close", "error", "eof"}
\* user u has had WebSockets and every one of them has ended
EndedUser(u) ==
    /\ ConnsOf(u) # {}
    /\ \A c \in ConnsOf(u) : connPc[c] = "closed"

\* C13: whatever ends the read loop (a close frame, a transport error, the
\* end of the stream, the shutdown flag), on_connect goes on to remove the
\* registry entry of its user id and after that marks the user disconnected
\* in the tracker and notifies the receive callback; once every WebSocket
\* of a user has ended, the registry holds no entry of the user and the
\* tracker says not connected.
C13_LoopExitCleansUp ==
    [][/\ \A c \in Conns, f \in Frames :
              (ConnFrame(c, f) /\ (f \in Breaks \/ shutdown))
              => connPc'[c] = "leaving"
       /\ \A c \in Conns :
              (connPc[c] = "leaving" /\ connPc'[c] # "leaving")
              => /\ connPc'[c] = "removed"
                 /\ RegistryGet(registry', connUser[c]) = {}
                 /\ connected' = connected
       /\ \A c \in Conns :
              (connPc[c] = "removed" /\ connPc'[c] # "removed")
              => /\ connPc'[c] = "closed"
                 /\ connUser[c] \notin connected'
                 /\ receiver => lastCall' = <<"connection", connUser[c], FALSE>>
       /\ \A u \in UserIds :
              EndedUser(u)' => /\ RegistryGet(registry', u) = {}
                               /\ u \notin connected'
                               /\ count_connections' =
                                      Cardinality({e \in registry' : e[1] # u})]_vars

\* the only WebSocket of a user has ended, on a transport error, and the
\* receive callback was told
C13_Witness ==
    \E u \in UserIds :
        /\ EndedUser(u)
        /\ Cardinality(ConnsOf(u)) = 1
        /\ receiver
        /\ lastCall = <<"connection", u, FALSE>>

\* C14: with the shutdown flag set, a read loop ends on the next frame it
\* receives, and when that frame is not one that ends the loop anyway it
\* has enqueued a close frame with code 4000 on its own channel before it
\* ends; a loop is never ended by the flag without a frame: setting the flag
\* ends no loop, and without the flag a ping, text or binary frame leaves
\* the loop running and enqueues nothing.
C14_ShutdownPolledPerFrame ==
    [][/\ \A c \in Conns, f \in Frames :
              (ConnFrame(c, f) /\ shutdown)
              => /\ connPc'[c] = "leaving"
                 /\ f \notin Breaks
                    => outbound'[c] = Append(outbound[c], CloseShutdown)
                 /\ f \in Breaks => outbound' = outbound
       /\ \A c \in Conns, f \in Frames :
              (ConnFrame(c, f) /\ ~shutdown /\ f \notin Breaks)
              => connPc'[c] = "loop" /\ outbound' = outbound
       /\ Shutdown => connPc' = connPc /\ outbound' = outbound
       /\ \A c \in Conns :
              (connPc[c] = "loop" /\ connPc'[c] # "loop")
              => \E f \in Frames : ConnFrame(c, f)]_vars

\* a loop has ended on the shutdown flag, the close frame on its channel
C14_Witness ==
    /\ shutdown
    /\ published = <<>>
    /\ \E c \in Conns :
           /\ connPc[c] = "leaving"
           /\ outbound[c] = <<CloseShutdown>>

\* C15: whenever no WebSocket of user u is between its registration and its
\* Connected transition or between the end of its loop and its Disconnected
\* transition, the tracker says connected exactly when the registry holds an
\* entry of u.
C15_TrackerMatchesRegistry ==
    \A u \in UserIds :
        (\A c \in ConnsOf(u) : connPc[c] \in {"loop", "closed"})
        => (u \in connected <=> RegistryGet(registry, u) # {})

\* C16: a message that publish_msg wrote for topic t and that the subscriber
\* task takes off its stream is handed to the registered receiver in exactly
\* one call, on_text for Text and on_binary for Binary, with topic t and the
\* payload that was published.
C16_RelayRoundTrip ==
    [][SubForward =>
          \A t \in Topics, m \in RelayMsgs :
              (/\ Head(relayQueue) =
                      [channel |-> ChannelOf(t), bytes |-> to_stdvec(m)]
               /\ relayReceiver)
              => /\ relayLast' =
                        [kind |-> m.kind, topic |-> t, payload |-> m.payload]
                 /\ relayCount' = relayCount + 1]_vars

\* a Binary message for a topic that itself starts with the prefix has been
\* forwarded
C16_Witness ==
    /\ relayCount > 0
    /\ relayLast = [kind |-> "Binary", topic |-> <<RelayPrefix, "u">>,
                    payload |-> <<1, 200>>]

\* C17: the subscriber task always comes back: whenever an attempt is over
\* it sleeps and then starts the next attempt, and if the url parses and
\* the broker stays reachable from some time on, the task is subscribed
\* from some time on and every message on its stream is taken off.
C17_SubscriberRetries ==
    /\ (subPc = "sleeping") ~> (subPc = "start")
    /\ [](subPc \in {"start", "connecting", "subscribing", "subscribed",
                     "sleeping"})
    /\ (urlOk /\ <>[]brokerUp) => <>[](subPc = "subscribed")
    /\ (relayQueue # <<>>) ~> (relayQueue = <<>>)

\* an attempt has failed, the task has slept through its backoff and the
\* broker is reachable again
C17_Witness ==
    /\ subPc = "sleeping"
    /\ subTimer = 0
    /\ urlOk
    /\ brokerUp

\* the responses that answer an authentication failure: a login that found
\* no user or a wrong secret, a session filter or an upgrade that found the
\* session unknown or superseded
AuthFailure(r) ==
    \/ r.op = "login" /\ r.kind = "err" /\ r.payload = "failed to retrieve user"
    \/ r.op = "session_filter" /\ r.kind = "reject"
    \/ r.op = "subscribe" /\ r.kind = "err"

\* C18: an authentication failure is answered with a client-error reply (a
\* 4xx status, or a typed rejection in the body) and never with a 5xx status.
C18_AuthFailureNever5xx ==
    AuthFailure(resp) =>
        /\ ReplyStatus(resp) \notin 500 .. 599
        /\ \/ ReplyStatus(resp) \in 400 .. 499
           \/ resp.payload \in {"INVALID", "SESSION_NOT_FOUND"}

\* C19: a login request with a supported client version and no credentials
\* is answered with the authentication failure, not with a panic.
C19_NoCredentialsTyped ==
    [][\A p \in Procs, v \in Versions :
          LoginNoCredentials(p, v) =>
              /\ resp'.kind = "err"
              /\ AuthFailure(resp')]_vars

\* C20: when the on_login or on_register callback returns an error, login or
\* register still returns Ok with the token of the session it created.
C20_CallbackErrorOnlyLogged ==
    [][\A p \in Procs :
          /\ LoginFinish(p, "err")
             => resp' = OkResp("login", loc[p].session_id, loc[p].user)
          /\ (RegisterFinish(p, "err")
              /\ SaveUser(backend, users, loc[p].user).ok)
             => resp' = OkResp("register", loc[p].session_id, loc[p].user)]_vars

\* C21: when the on_login or on_register callback fails, what the handler
\* wrote before the callback stays written: the session it created validates
\* Ok for the user, the user record it saved is the stored record, and for a
\* login every session the user held before validates Invalid.
C21_CallbackFailureKeepsState ==
    [][\A p \in Procs :
          LET u == loc[p].user
              saved == SaveUser(backend, users, u).ok
              new == ValidateSession(sessions', loc[p].session_id) IN
          /\ LoginFinish(p, "err") =>
                /\ resp'.kind = "err"
                /\ new.result = "Ok" /\ new.user_id = u.id
                /\ \A s \in loc[p].prior :
                      ValidateSession(sessions', s).result = "Invalid"
                /\ saved => (u.id \in DOMAIN users' /\ users'[u.id] = u)
          /\ (RegisterFinish(p, "err") /\ saved) =>
                /\ resp'.kind = "err"
                /\ new.result = "Ok" /\ new.user_id = u.id
                /\ u.id \in DOMAIN users' /\ users'[u.id] = u]_vars

\* a login ended with the error of on_login; its user is stored with the
\* new, valid session and an older session of the user is invalid
C21_Witness ==
    /\ resp = ErrResp("login", "on_login")
    /\ \E id \in DOMAIN users :
          /\ users[id].version >= 1
          /\ users[id].session # None
          /\ ValidateSession(sessions, Unwrap(users[id].session)).result = "Ok"
          /\ \E k \in DOMAIN sessions :
                sessions[k].user_id = id /\ ~sessions[k].valid


\* C22: a login or register whose user save failed does not report success:
\* the step that ends the handler with a failed save_user answers with an
\* error.
C22_SaveFailureSurfaced ==
    [][\A p \in Procs :
          ((LoginSave(p) \/ RegisterSave(p))
           /\ ~SaveUser(backend, users, loc[p].user).ok)
          => resp'.kind = "err"]_vars

\* C27: a WebSocket that is open and is the one registered last for its
\* user has the registry entry of that user, whatever older WebSockets of
\* the user do.
C27_LatestConnectionRegistered ==
    \A c \in Conns :
        (/\ IsOpen(c)
         /\ \A b \in ConnsOf(connUser[c]) : RegPos(b) <= RegPos(c))
        => <<connUser[c], c>> \in registry

\* C28: every published message that sits on an outbound channel sits on a
\* channel that was registered under the user id the message's topic names.
C28_TopicIsolation ==
    \A c \in Conns :
        \A i \in DOMAIN outbound[c] :
            outbound[c][i] \in DOMAIN published
            => /\ Registered(c)
               /\ connUser[c] = published[outbound[c][i]].topic

\* WebSockets of two users are open and a published message sits on the
\* channel of the user its topic names and not on the other one's
C28_Witness ==
    \E c1, c2 \in Conns, m \in DOMAIN published :
        /\ IsOpen(c1) /\ IsOpen(c2)
        /\ connUser[c1] # connUser[c2]
        /\ published[m].topic = connUser[c1]
        /\ \E i \in DOMAIN outbound[c1] : outbound[c1][i] = m
        /\ \A i \in DOMAIN outbound[c2] : outbound[c2][i] # m

\* C23: the callbacks of one WebSocket's text and binary frames start in the
\* order in which the frames were read.
C23_ReceiveInReadOrder ==
    \A i, j \in DOMAIN started :
        (i < j /\ spawned[started[i]].conn = spawned[started[j]].conn)
        => started[i] < started[j]

\* C24: a set_entry for a provider key that is linked to a user leaves the
\* link as it is and returns AlreadyAssignedDifferently when the entry names
\* another user, and returns Success when it names the same user; so a key
\* that is linked stays linked to the same user over every set_entry.
C24_FirstLinkStays ==
    [][\A entry \in SsoEntries :
          SetEntry(entry) =>
              LET key == SsoKeyOf(entry) IN
              /\ (key \in DOMAIN ssoDb /\ ssoDb[key].user_id # entry.user_id)
                 => /\ ssoResult' = "AlreadyAssignedDifferently"
                    /\ ssoDb' = ssoDb
              /\ (key \in DOMAIN ssoDb /\ ssoDb[key].user_id = entry.user_id)
                 => ssoResult' = "Success"
              /\ \A k \in DOMAIN ssoDb :
                    /\ k \in DOMAIN ssoDb'
                    /\ ssoDb'[k].user_id = ssoDb[k].user_id]_vars

\* a set_entry naming another user was refused and the key has its link
C24_Witness ==
    /\ ssoResult = "AlreadyAssignedDifferently"
    /\ \E k \in DOMAIN ssoDb : ssoDb[k].user_id \in UserIds

\* C25, as stated: a valid purchase of a consumable whose transaction has a
\* stored receipt is answered valid = false, without a call of
\* on_valid_receipt and with the stored receipt as it was; and over every
\* sequence of validate_purchase calls on_valid_receipt is invoked at most
\* once for a consumable transaction.
C25_ConsumedOnce ==
    [][/\ \A p \in Procs, u \in UserIds, t \in Consumables :
              (IapCheck(p, u, t, "valid") /\ t \in DOMAIN receipts)
              => /\ iapResp'[p] = "invalid"
                 /\ iapPc'[p] = "idle"
                 /\ handlerCalls' = handlerCalls
                 /\ receipts' = receipts
       /\ \A t \in Consumables : handlerCalls'[t] <= 1]_vars

\* C25, amended: a valid purchase of a consumable whose transaction has a
\* stored receipt is answered valid = false, without a call of
\* on_valid_receipt and with the stored receipt as it was; and over every
\* sequence of validate_purchase calls on_valid_receipt is never invoked for
\* a consumable transaction that has a stored receipt, and at most one call
\* answers valid = true for it.
C25_StoredReceiptRefused ==
    [][/\ \A p \in Procs, u \in UserIds, t \in Consumables :
              (IapCheck(p, u, t, "valid") /\ t \in DOMAIN receipts)
              => /\ iapResp'[p] = "invalid"
                 /\ iapPc'[p] = "idle"
                 /\ handlerCalls' = handlerCalls
                 /\ receipts' = receipts
       /\ \A p \in Procs, ev \in {"ok", "err"} :
              (IapHandler(p, ev) /\ iapLoc[p].transaction \in Consumables)
              => iapLoc[p].transaction \notin DOMAIN receipts
       /\ \A t \in Consumables : validAnswers'[t] <= 1]_vars

\* a consumable was bought, its receipt stored after one call of
\* on_valid_receipt, and a later call for it was answered valid = false
C25_Witness ==
    \E t \in Consumables :
        /\ t \in DOMAIN receipts
        /\ handlerCalls[t] = 1 /\ validAnswers[t] = 1
        /\ iapResp[FirstHandler] = "invalid"
        /\ iapStarted >= 2

\* C30: however validate_purchase calls for one consumable transaction
\* overlap, on_valid_receipt is invoked at most once for it and at most one
\* of the calls answers valid = true.
C30_ConcurrentConsumedOnce ==
    \A t \in Consumables : handlerCalls[t] <= 1 /\ validAnswers[t] <= 1

\* C26: a session record keeps its user id and, once its valid flag is
\* false, keeps it false, over every create, invalidate, get, login and
\* register; an invalidate leaves the set of stored keys as it is.
C26_SessionOnlySuperseded ==
    [][/\ \A k \in DOMAIN sessions :
              k \in DOMAIN sessions'
              => /\ sessions'[k].user_id = sessions[k].user_id
                 /\ ~sessions[k].valid => ~sessions'[k].valid
       /\ \A k \in Tokens :
              SessionInvalidateCall(k)
              => /\ DOMAIN sessions' = DOMAIN sessions
                 /\ k \notin DOMAIN sessions => sessions' = sessions]_vars

\* a user holds two superseded sessions and a valid one, and every stored
\* key is one the store handed out
C26_Witness ==
    \E a, b, c \in DOMAIN sessions :
        /\ a # b
        /\ sessions[a].user_id = sessions[c].user_id
        /\ sessions[b].user_id = sessions[c].user_id
        /\ ~sessions[a].valid /\ ~sessions[b].valid /\ sessions[c].valid
        /\ EmptyToken \notin DOMAIN sessions

\* C29: a user_login that returns the error of a failed session create
\* leaves the Session Store as the call found it: the session the user held
\* before the call is still valid.
C29_FailedLoginKeepsSessions ==
    [][LoginCreateFails(FirstHandler)
       => /\ resp'.kind = "err"
          /\ sessions' = loc[FirstHandler].before]_vars

====
